---- MODULE Spec2Model ----
(***************************************************************************)
(* A model of pysot/models/model_builder.py: the ModelBuilder module that  *)
(* wires a backbone, an optional neck, an RPN head and optional mask and   *)
(* refine heads together, with its template/track/mask_refine/forward/     *)
(* save_script operations and the log_softmax reshaping.                   *)
(*                                                                         *)
(* Tensors are symbolic: a feature is described by the image it was        *)
(* computed from, the backbone levels it holds and whether the neck has    *)
(* been applied; a head output by the pair of features it was computed     *)
(* from.  A Python exception ends an operation at the statement raising    *)
(* it: the attribute writes made before that statement stay.                *)
(***************************************************************************)
EXTENDS Integers, Sequences, FiniteSets, TLC

\* ------------------------------------------------------------- bounds
MaxLevels == 3      \* the backbone returns 1..MaxLevels feature levels
MaxLoss   == 1      \* a loss function returns a value in 0..MaxLoss
MaxB      == 2      \* log_softmax input: batch size 1..MaxB
MaxA2     == 6      \* log_softmax input: channels 1..MaxA2
MaxH      == 2      \* log_softmax input: height 1..MaxH
MaxW      == 3      \* log_softmax input: width 1..MaxW

\* The images a template, a search region or a batch is drawn from: two, so
\* that the most recent input can differ from an earlier one.
Images == {1, 2}
Positions == {1}
SavePaths == {"out"}
\* (TRAIN.CLS_WEIGHT, TRAIN.LOC_WEIGHT, TRAIN.MASK_WEIGHT) of the config
Weights == {<<1, 2, 3>>, <<2, 1, 1>>}

Min(a, b) == IF a < b THEN a ELSE b

\* ------------------------------------------------------------- tensors
\* An attribute that was never assigned (reading it raises AttributeError).
UnsetFeat == [kind |-> "unset", img |-> 0, lvls |-> <<>>, neck |-> FALSE]
IsSet(f) == f.kind # "unset"

\* self.backbone(img): the list of the n feature levels of img, in order.
backbone(n, img) ==
    [kind |-> "list", img |-> img, lvls |-> [i \in 1..n |-> i], neck |-> FALSE]

\* f[-1]: the last element of a list of levels, a single tensor.
LastLevel(f) ==
    [kind |-> "tensor", img |-> f.img, lvls |-> <<f.lvls[Len(f.lvls)]>>,
     neck |-> f.neck]

\* f[:-1]: the list without its last element.
ButLast(f) ==
    [kind |-> "list", img |-> f.img, lvls |-> SubSeq(f.lvls, 1, Len(f.lvls) - 1),
     neck |-> f.neck]

\* self.neck(f)
neck(f) == [f EXCEPT !.neck = TRUE]

\* What a head returns: kind says which output, z and x what it was computed from.
NoOut == [kind |-> "absent", z |-> UnsetFeat, x |-> UnsetFeat]
PyNone == [kind |-> "None", z |-> UnsetFeat, x |-> UnsetFeat]
HeadOut(kind, z, x) == [kind |-> kind, z |-> z, x |-> x]

\* One call of a submodule, as recorded in the log of the running operation.
Call(mod, a, b) == [mod |-> mod, a |-> a, b |-> b]

\* ------------------------------------------------------------- __init__
\* Variant of ModelBuilder_init: the refine head built outside the mask branch.
ModelBuilder_init_flat(c) ==
    {"backbone", "rpn_head"}
      \cup (IF c.ADJUST THEN {"neck"} ELSE {})
      \cup (IF c.MASK THEN {"mask_head"} ELSE {})
      \cup (IF c.REFINE THEN {"refine_head"} ELSE {})

\* The submodule attributes __init__ assigns under the config c.
ModelBuilder_init(c) ==
    {"backbone", "rpn_head"}
      \cup (IF c.ADJUST THEN {"neck"} ELSE {})
      \cup (IF c.MASK THEN {"mask_head"} ELSE {})
      \cup (IF c.MASK /\ c.REFINE THEN {"refine_head"} ELSE {})

\* ------------------------------------------------------------- results
NoResult ==
    [op |-> "none", ok |-> FALSE, err |-> "", arg |-> 0,
     keys |-> {}, cls |-> NoOut, loc |-> NoOut, mask |-> NoOut,
     cls_loss |-> 0, loc_loss |-> 0, mask_loss |-> 0, total_loss |-> 0,
     refine_xf |-> UnsetFeat, refine_corr |-> NoOut, written |-> <<>>]

Raise(op, arg, err) ==
    [NoResult EXCEPT !.op = op, !.arg = arg, !.err = err]

\* The attributes of the object an operation reads and writes.
Fields(zf_, xf_, mcf_, xfr_) ==
    [zf |-> zf_, xf |-> xf_, mask_corr_feature |-> mcf_, xf_refine |-> xfr_]

Outcome(s, res, calls_) == [s |-> s, res |-> res, calls |-> calls_]

\* An input image, as the argument of a backbone call in the call log.
Image(img) == [kind |-> "image", img |-> img, lvls |-> <<>>, neck |-> FALSE]

\* ------------------------------------------------------------- template
\* template(z): lines 50-56.  c is the config, mods the submodule attributes
\* the object has, n the number of levels the backbone returns, s the fields.
\* lines 52-53: the part of the backbone output template() goes on with
template_select(c, zf0) == IF c.MASK THEN LastLevel(zf0) ELSE zf0

\* Variant of template_store: the embedding is cached on the first call only.
template_store_once(s, zf) == IF IsSet(s.zf) THEN s ELSE [s EXCEPT !.zf = zf]

\* line 56
template_store(s, zf) == [s EXCEPT !.zf = zf]

template(c, mods, n, s, z) ==
    LET zf0 == backbone(n, z)
        zf1 == template_select(c, zf0)
        log0 == <<Call("backbone", Image(z), UnsetFeat)>>
    IN  IF c.ADJUST /\ "neck" \notin mods
        THEN Outcome(s, Raise("template", z, "AttributeError"), log0)
        ELSE LET zf2 == IF c.ADJUST THEN neck(zf1) ELSE zf1
                 log1 == IF c.ADJUST
                         THEN Append(log0, Call("neck", zf1, UnsetFeat))
                         ELSE log0
             IN  Outcome(template_store(s, zf2),
                         [NoResult EXCEPT !.op = "template", !.ok = TRUE, !.arg = z],
                         log1)

\* ------------------------------------------------------------- track
\* track(x): lines 58-73.  The locals xf and xf_n are bound only under
\* MASK.MASK and ADJUST.ADJUST; reading an unbound local raises
\* UnboundLocalError, reading a missing attribute AttributeError.
\* Variant of track_cache: xf_local[1:] cached in place of xf_local[:-1].
track_cache_tail(c, s, xf_local) ==
    IF c.MASK
    THEN [s EXCEPT !.xf = [kind |-> "list", img |-> xf_local.img,
                           lvls |-> Tail(xf_local.lvls), neck |-> xf_local.neck]]
    ELSE s

\* lines 61-62: what track() caches of the backbone output
track_cache(c, s, xf_local) ==
    IF c.MASK THEN [s EXCEPT !.xf = ButLast(xf_local)] ELSE s

track(c, mods, n, s, x) ==
    LET xf_local == backbone(n, x)
        log0 == <<Call("backbone", Image(x), UnsetFeat)>>
        \* lines 61-63
        s1 == track_cache(c, s, xf_local)
        xf == LastLevel(xf_local)
        fail(st, err, log) == Outcome(st, Raise("track", x, err), log)
    IN  \* lines 64-65
        IF c.ADJUST /\ "neck" \notin mods THEN fail(s1, "AttributeError", log0)
        ELSE IF c.ADJUST /\ ~c.MASK THEN fail(s1, "UnboundLocalError", log0)
        ELSE
        LET xf_n == neck(xf)
            log1 == IF c.ADJUST THEN Append(log0, Call("neck", xf, UnsetFeat))
                    ELSE log0
        IN  \* line 66: self.rpn_head, self.zf and xf_n are read in this order
            IF ~IsSet(s1.zf) THEN fail(s1, "AttributeError", log1)
            ELSE IF ~c.ADJUST THEN fail(s1, "UnboundLocalError", log1)
            ELSE
            LET cls == HeadOut("cls", s1.zf, xf_n)
                loc == HeadOut("loc", s1.zf, xf_n)
                log2 == Append(log1, Call("rpn_head", s1.zf, xf_n))
            IN  \* lines 67-68
                IF c.MASK /\ "mask_head" \notin mods
                THEN fail(s1, "AttributeError", log2)
                ELSE
                LET s2 == IF c.MASK
                          THEN [s1 EXCEPT !.mask_corr_feature =
                                              HeadOut("corr", s1.zf, xf_n)]
                          ELSE s1
                    log3 == IF c.MASK
                            THEN Append(log2, Call("mask_head", s1.zf, xf_n))
                            ELSE log2
                    \* lines 69-73
                    res == [NoResult EXCEPT
                              !.op = "track", !.ok = TRUE, !.arg = x,
                              !.keys = {"cls", "loc", "mask"},
                              !.cls = cls, !.loc = loc,
                              !.mask = IF c.MASK THEN HeadOut("mask", s1.zf, xf_n)
                                       ELSE PyNone]
                IN  Outcome(s2, res, log3)

\* ------------------------------------------------------------- mask_refine
\* mask_refine(pos): lines 75-76.  self.refine_head, self.xf and
\* self.mask_corr_feature are read in this order.
mask_refine(c, mods, n, s, pos) ==
    IF \/ "refine_head" \notin mods
       \/ ~IsSet(s.xf)
       \/ s.mask_corr_feature.kind = "absent"
    THEN Outcome(s, Raise("mask_refine", pos, "AttributeError"), <<>>)
    ELSE Outcome(s,
                 [NoResult EXCEPT !.op = "mask_refine", !.ok = TRUE, !.arg = pos,
                                  !.refine_xf = s.xf,
                                  !.refine_corr = s.mask_corr_feature],
                 <<Call("refine_head", s.xf, UnsetFeat)>>)

\* ------------------------------------------------------------- forward
\* forward(data): lines 85-123.  data.has_keys says whether the batch holds
\* the five keys lines 88-92 read; data.cls_loss and data.loc_loss are the
\* values select_cross_entropy_loss and weight_l1_loss return on the batch.
\* Variant of forward_cache: the template features are cached as self.zf too.
forward_cache_zf(c, s, zf0, xf0) ==
    IF c.MASK
    THEN [s EXCEPT !.xf_refine = ButLast(xf0), !.zf = LastLevel(zf0)]
    ELSE [s EXCEPT !.zf = zf0]

\* Variant of forward_cache: the levels are cached as self.xf, the attribute
\* track() uses, in place of self.xf_refine.
forward_cache_xf(c, s, zf0, xf0) ==
    IF c.MASK THEN [s EXCEPT !.xf = ButLast(xf0)] ELSE s

\* lines 97-99: what forward() caches of the backbone outputs
forward_cache(c, s, zf0, xf0) ==
    IF c.MASK THEN [s EXCEPT !.xf_refine = ButLast(xf0)] ELSE s

forward(c, mods, n, s, data) ==
    LET fail(st, err, log) ==
            Outcome(st, Raise("forward", 0, err), log)
    IN  IF ~data.has_keys THEN fail(s, "KeyError", <<>>)
        ELSE
        LET zf0 == backbone(n, data.template)
            xf0 == backbone(n, data.search)
            log0 == <<Call("backbone", Image(data.template), UnsetFeat),
                      Call("backbone", Image(data.search), UnsetFeat)>>
            \* lines 97-100
            zf1 == IF c.MASK THEN LastLevel(zf0) ELSE zf0
            s1  == forward_cache(c, s, zf0, xf0)
            xf1 == IF c.MASK THEN LastLevel(xf0) ELSE xf0
        IN  \* lines 101-103
            IF c.ADJUST /\ "neck" \notin mods THEN fail(s1, "AttributeError", log0)
            ELSE
            LET zf == IF c.ADJUST THEN neck(zf1) ELSE zf1
                xf == IF c.ADJUST THEN neck(xf1) ELSE xf1
                log1 == IF c.ADJUST
                        THEN log0 \o <<Call("neck", zf1, UnsetFeat),
                                       Call("neck", xf1, UnsetFeat)>>
                        ELSE log0
                \* line 104
                log2 == Append(log1, Call("rpn_head", zf, xf))
                \* lines 107-115
                cls_loss == data.cls_loss
                loc_loss == data.loc_loss
                total == c.CLS_WEIGHT * cls_loss + c.LOC_WEIGHT * loc_loss
            IN  IF ~c.MASK
                THEN Outcome(s1,
                             [NoResult EXCEPT
                                !.op = "forward", !.ok = TRUE,
                                !.keys = {"total_loss", "cls_loss", "loc_loss"},
                                !.cls_loss = cls_loss, !.loc_loss = loc_loss,
                                !.total_loss = total],
                             log2)
                \* lines 117-122: mask_loss is None, and a number times None
                \* raises TypeError, after line 119 has assigned the attribute
                ELSE IF "mask_head" \notin mods
                THEN fail(s1, "AttributeError", log2)
                ELSE fail([s1 EXCEPT !.mask_corr_feature = HeadOut("corr", zf, xf)],
                          "TypeError",
                          Append(log2, Call("mask_head", zf, xf)))

\* ------------------------------------------------------------- save_script
\* save_script(save_path): lines 125-148.  `if self.neck:` reads the
\* attribute, which raises AttributeError when __init__ did not assign it;
\* a module that exists is truthy.  The files written before the exception
\* stay on disk.
save_script(c, mods, n, s, save_path) ==
    LET fail(w) == Outcome(s, [Raise("save_script", 0, "AttributeError")
                                 EXCEPT !.written = w], <<>>)
        w1 == <<"back_bone.pt">>
    IN  IF "neck" \notin mods THEN fail(w1)
        ELSE
        LET w2 == Append(w1, "neck.pt")
            w3 == IF "rpn_head" \in mods THEN Append(w2, "rpn_head.pt") ELSE w2
        IN  IF "rpn_head" \notin mods THEN fail(w2)
            ELSE IF "mask_head" \notin mods THEN fail(w3)
            ELSE
            LET w4 == Append(w3, "mask_head.pt")
            IN  IF "refine_head" \notin mods THEN fail(w4)
                ELSE Outcome(s,
                             [NoResult EXCEPT !.op = "save_script", !.ok = TRUE,
                                              !.written = Append(w4, "refine_head.pt")],
                             <<>>)

\* ------------------------------------------------------------- log_softmax
\* Tensor shapes and strides, as the tensor runtime keeps them.  Dimensions
\* are numbered from 0 in the code and held at position d+1 of a sequence;
\* indices and storage offsets count from 0.
RECURSIVE Prod(_)
Prod(sq) == IF sq = <<>> THEN 1 ELSE Head(sq) * Prod(Tail(sq))

\* The strides of a contiguous (row-major) tensor of this shape.
Strides(shape) ==
    [d \in 1..Len(shape) |-> Prod(SubSeq(shape, d + 1, Len(shape)))]

\* The index of the element at row-major position o of a tensor of this shape.
Unravel(o, shape) ==
    [d \in 1..Len(shape) |-> (o \div Strides(shape)[d]) % shape[d]]

RECURSIVE Dot(_, _)
Dot(idx, strides) ==
    IF idx = <<>> THEN 0
    ELSE Head(idx) * Head(strides) + Dot(Tail(idx), Tail(strides))

\* The storage offset of the element at index idx of a strided tensor.
Offset(idx, strides) == Dot(idx, strides)

\* Variant of ViewShape: the two class scores of an anchor taken to be
\* adjacent channels.
ViewShape_interleaved(b, a2, h, w) == <<b, a2 \div 2, 2, h, w>>

\* line 80: the shape cls is viewed as
ViewShape(b, a2, h, w) == <<b, 2, a2 \div 2, h, w>>
\* line 81: the order permute() puts the dimensions in
PermuteDims == <<0, 2, 3, 4, 1>>
\* line 82: the dimension log_softmax normalises over
SoftmaxDim == 4

\* t.view(shape): the same storage under a new shape; the element counts
\* must agree.
CanView(t, shape) == Prod(t.shape) = Prod(shape)
View(t, shape) == [shape |-> shape, strides |-> Strides(shape)]

\* t.permute(dims): the dimensions, with their strides, in a new order.
Permute(t, dims) ==
    [shape   |-> [d \in 1..Len(dims) |-> t.shape[dims[d] + 1]],
     strides |-> [d \in 1..Len(dims) |-> t.strides[dims[d] + 1]]]

\* t.contiguous(): the elements of t laid out row-major; element o+1 of the
\* result names the storage offset it was copied from.
Contiguous(t) ==
    [o \in 1..Prod(t.shape) |-> Offset(Unravel(o - 1, t.shape), t.strides)]

\* F.log_softmax(data, dim): each element becomes its own value minus the
\* log of the sum of the exponentials of the elements that differ from it in
\* dimension dim only: num names the element, den the elements summed.
LogSoftmaxOver(data, shape, dim) ==
    [o \in 1..Len(data) |->
        LET idx == Unravel(o - 1, shape)
        IN  [num |-> data[o],
             den |-> {data[Offset([idx EXCEPT ![dim + 1] = j], Strides(shape)) + 1] :
                        j \in 0..(shape[dim + 1] - 1)}]]

\* log_softmax(cls): lines 78-83, on a contiguous input of the given shape
\* whose element at storage offset o is named o.
log_softmax(shape) ==
    LET b  == shape[1]
        a2 == shape[2]
        h  == shape[3]
        w  == shape[4]
        cls0 == [shape |-> shape, strides |-> Strides(shape)]
        vs == ViewShape(b, a2, h, w)
    IN  IF ~CanView(cls0, vs)
        THEN [ok |-> FALSE, shape |-> <<>>, data |-> <<>>]
        ELSE LET cls1 == View(cls0, vs)
                 cls2 == Permute(cls1, PermuteDims)
                 cls3 == Contiguous(cls2)
             IN  [ok |-> TRUE, shape |-> cls2.shape,
                  data |-> LogSoftmaxOver(cls3, cls2.shape, SoftmaxDim)]

\* ------------------------------------------------------------- state
VARIABLES
    cfg,                \* the config: flags and loss weights (immutable)
    nlevels,            \* how many feature levels the backbone returns
    modules,            \* the submodule attributes __init__ assigned
    zf,                 \* self.zf
    xf,                 \* self.xf
    mask_corr_feature,  \* self.mask_corr_feature
    xf_refine,          \* self.xf_refine
    files,              \* the files on disk, as <<directory, name>>
    result,             \* what the last operation returned or raised
    calls,              \* the submodule calls the last operation made
    hist,               \* history of the calls made so far (for the properties)
    ls                  \* the log_softmax call under study

vars == <<cfg, nlevels, modules, zf, xf, mask_corr_feature, xf_refine, files,
          result, calls, hist, ls>>

Configs ==
    {[ADJUST |-> a, MASK |-> m, REFINE |-> r,
      CLS_WEIGHT |-> wt[1], LOC_WEIGHT |-> wt[2], MASK_WEIGHT |-> wt[3]] :
        a \in BOOLEAN, m \in BOOLEAN, r \in BOOLEAN, wt \in Weights}

\* The batches forward() is called on: one that lacks a key, and the full ones.
Batches ==
    {[has_keys |-> FALSE, template |-> 1, search |-> 1, cls_loss |-> 0, loc_loss |-> 0]}
      \cup [has_keys : {TRUE}, template : Images, search : Images,
            cls_loss : 0..MaxLoss, loc_loss : 0..MaxLoss]

NoHist ==
    [lastZ |-> 0,        \* input of the most recent template() that completed
     tracks |-> 0,       \* track() calls completed since then: 0, 1 or 2 (2 or more)
     trackDone |-> FALSE,\* some track() call has completed
     lastTrackX |-> 0,   \* input of the most recent track() call, 0 if none
     corrBy |-> "none",  \* the last call that ran the mask head to its end
     corrZ |-> 0,        \* the template image of that call
     corrX |-> 0]        \* the search image of that call

LsIdle == [pc |-> "idle", shape |-> <<>>, out |-> [ok |-> FALSE, shape |-> <<>>, data |-> <<>>]]

Self == Fields(zf, xf, mask_corr_feature, xf_refine)

\* The effect of an operation's outcome on the object and the observation.
Apply(o) ==
    /\ zf' = o.s.zf
    /\ xf' = o.s.xf
    /\ mask_corr_feature' = o.s.mask_corr_feature
    /\ xf_refine' = o.s.xf_refine
    /\ result' = o.res
    /\ calls' = o.calls
    /\ UNCHANGED <<cfg, nlevels, modules, ls>>

Init ==
    /\ cfg \in Configs
    /\ nlevels \in 1..MaxLevels
    /\ modules = ModelBuilder_init(cfg)
    /\ zf = UnsetFeat
    /\ xf = UnsetFeat
    /\ mask_corr_feature = NoOut
    /\ xf_refine = UnsetFeat
    /\ files = {}
    /\ result = NoResult
    /\ calls = <<>>
    /\ hist = NoHist
    /\ ls = LsIdle

Template ==
    \E z \in Images :
        LET o == template(cfg, modules, nlevels, Self, z)
        IN  /\ Apply(o)
            /\ hist' = IF o.res.ok
                       THEN [hist EXCEPT !.lastZ = z, !.tracks = 0]
                       ELSE hist
            /\ UNCHANGED files

Track ==
    \E x \in Images :
        LET o == track(cfg, modules, nlevels, Self, x)
        IN  /\ Apply(o)
            /\ hist' = [hist EXCEPT
                          !.lastTrackX = x,
                          !.trackDone = @ \/ o.res.ok,
                          !.tracks = IF o.res.ok THEN Min(@ + 1, 2) ELSE @,
                          !.corrBy = IF o.res.ok /\ cfg.MASK THEN "track" ELSE @,
                          !.corrZ = IF o.res.ok /\ cfg.MASK THEN hist.lastZ ELSE @,
                          !.corrX = IF o.res.ok /\ cfg.MASK THEN x ELSE @]
            /\ UNCHANGED files

MaskRefine ==
    \E pos \in Positions :
        LET o == mask_refine(cfg, modules, nlevels, Self, pos)
        IN  /\ Apply(o)
            /\ UNCHANGED <<files, hist>>

Forward ==
    \E data \in Batches :
        LET o == forward(cfg, modules, nlevels, Self, data)
        IN  /\ Apply(o)
            /\ hist' = IF data.has_keys /\ cfg.MASK
                       THEN [hist EXCEPT !.corrBy = "forward",
                                         !.corrZ = data.template,
                                         !.corrX = data.search]
                       ELSE hist
            /\ UNCHANGED files

SaveScript ==
    \E save_path \in SavePaths :
        LET o == save_script(cfg, modules, nlevels, Self, save_path)
        IN  /\ Apply(o)
            /\ files' = files \cup
                          {<<save_path, o.res.written[i]>> : i \in 1..Len(o.res.written)}
            /\ UNCHANGED hist

Next ==
    \/ Template
    \/ Track
    \/ MaskRefine
    \/ Forward
    \/ SaveScript

Spec == Init /\ [][Next]_vars

\* ------------------------------------------------------------- log_softmax
\* A second specification: one log_softmax call on an input of any shape
\* within the bounds (an odd channel count included: the view fails).
Shapes ==
    {<<b, a2, h, w>> : b \in 1..MaxB, a2 \in 1..MaxA2, h \in 1..MaxH, w \in 1..MaxW}

InitLS ==
    /\ cfg \in {c \in Configs : ~c.ADJUST /\ ~c.MASK /\ ~c.REFINE /\ c.CLS_WEIGHT = 1}
    /\ nlevels = 1
    /\ modules = ModelBuilder_init(cfg)
    /\ zf = UnsetFeat
    /\ xf = UnsetFeat
    /\ mask_corr_feature = NoOut
    /\ xf_refine = UnsetFeat
    /\ files = {}
    /\ result = NoResult
    /\ calls = <<>>
    /\ hist = NoHist
    /\ \E sh \in Shapes : ls = [LsIdle EXCEPT !.pc = "called", !.shape = sh]

LogSoftmax ==
    /\ ls.pc = "called"
    /\ ls' = [ls EXCEPT !.pc = "returned", !.out = log_softmax(ls.shape)]
    /\ UNCHANGED <<cfg, nlevels, modules, zf, xf, mask_corr_feature, xf_refine,
                   files, result, calls, hist>>

NextLS == LogSoftmax

SpecLS == InitLS /\ [][NextLS]_vars

\* ============================================================= properties
\* The embeddings the properties speak of, computed from the input image.

\* The template embedding of image img under the config: the backbone
\* output, its last level under MASK.MASK, through the neck under
\* ADJUST.ADJUST.
TemplateEmbedding(img) ==
    LET f == backbone(nlevels, img)
        g == IF cfg.MASK THEN LastLevel(f) ELSE f
    IN  IF cfg.ADJUST THEN neck(g) ELSE g

\* The search embedding of image img: computed as the template embedding is.
SearchEmbedding(img) == TemplateEmbedding(img)

\* The first n-1 backbone levels of image img, in their order.
FirstLevels(img) ==
    [kind |-> "list", img |-> img, lvls |-> [i \in 1..(nlevels - 1) |-> i],
     neck |-> FALSE]

\* ------------------------------------------------------------- C1
\* C1: a track() call returns outputs only if a template() call has completed
\* earlier on the same model; a track() call with no earlier template(), one
\* preceded only by forward() calls included, fails with a runtime error and
\* returns no outputs.
C1_TrackNeedsTemplate ==
    result.op = "track" =>
        /\ result.ok => hist.lastZ # 0
        /\ hist.lastZ = 0 =>
              /\ ~result.ok
              /\ result.err \in {"AttributeError", "UnboundLocalError"}
              /\ result.keys = {}
              /\ result.cls = NoOut /\ result.loc = NoOut /\ result.mask = NoOut

\* A track() call that failed on a model with neck and mask head, on which
\* forward() has run the mask head but template() was never called.
C1_Witness ==
    /\ result.op = "track" /\ ~result.ok /\ result.err = "AttributeError"
    /\ hist.lastZ = 0 /\ hist.corrBy = "forward"
    /\ cfg.ADJUST /\ cfg.MASK

\* ------------------------------------------------------------- C2
\* C2 as stated: each optional component exists iff its own config flag is
\* set: neck iff ADJUST.ADJUST, mask_head iff MASK.MASK, refine_head iff
\* REFINE.REFINE.
C2_EachFlagOwnComponent ==
    /\ "neck" \in modules <=> cfg.ADJUST
    /\ "mask_head" \in modules <=> cfg.MASK
    /\ "refine_head" \in modules <=> cfg.REFINE

\* C2, amended: neck exists iff ADJUST.ADJUST, mask_head iff MASK.MASK, and
\* refine_head iff both MASK.MASK and REFINE.REFINE are set.
C2_RefineNeedsMask ==
    /\ "neck" \in modules <=> cfg.ADJUST
    /\ "mask_head" \in modules <=> cfg.MASK
    /\ "refine_head" \in modules <=> (cfg.MASK /\ cfg.REFINE)

\* A model built with REFINE.REFINE set and MASK.MASK unset: no refine head.
C2_Witness ==
    /\ cfg.REFINE /\ ~cfg.MASK
    /\ "refine_head" \notin modules
    /\ "backbone" \in modules /\ "rpn_head" \in modules

\* ------------------------------------------------------------- C3
\* C3 as stated: for every combination of ADJUST.ADJUST and MASK.MASK, a
\* track(x) call made after template() completes and returns the keys cls,
\* loc and mask, cls and loc being the RPN head's outputs on (cached template
\* embedding, search embedding of x), mask the mask head's output under
\* MASK.MASK and None otherwise.
C3_TrackCompletesInEveryConfig ==
    (result.op = "track" /\ hist.lastZ # 0) =>
        /\ result.ok
        /\ result.keys = {"cls", "loc", "mask"}
        /\ result.cls = HeadOut("cls", zf, SearchEmbedding(result.arg))
        /\ result.loc = HeadOut("loc", zf, SearchEmbedding(result.arg))
        /\ result.mask = IF cfg.MASK
                         THEN HeadOut("mask", zf, SearchEmbedding(result.arg))
                         ELSE PyNone

\* ------------------------------------------------------------- C4
\* The artifacts of the submodules that exist, in the order backbone, neck,
\* rpn_head, mask_head, refine_head.
ExpectedArtifacts ==
    LET all == <<"backbone", "neck", "rpn_head", "mask_head", "refine_head">>
        name(m) == IF m = "backbone" THEN "back_bone.pt"
                   ELSE IF m = "neck" THEN "neck.pt"
                   ELSE IF m = "rpn_head" THEN "rpn_head.pt"
                   ELSE IF m = "mask_head" THEN "mask_head.pt"
                   ELSE "refine_head.pt"
        present == SelectSeq(all, LAMBDA m : m \in modules)
    IN  [i \in 1..Len(present) |-> name(present[i])]

\* C4 as stated: for every combination of config flags save_script()
\* completes and writes exactly one artifact per submodule that was
\* constructed and none for one that was not, in the order backbone, neck,
\* rpn_head, mask_head, refine_head.
C4_SaveScriptCompletesInEveryConfig ==
    result.op = "save_script" =>
        /\ result.ok
        /\ result.written = ExpectedArtifacts

\* ------------------------------------------------------------- C5
\* C5: every track() call uses the template embedding cached by the most
\* recent template() call and leaves it unchanged; only a template() call
\* replaces the cached embedding.
C5_TrackKeepsTemplate ==
    [][ /\ result'.op # "template" => zf' = zf
        /\ (result'.op = "track" /\ result'.ok) =>
              /\ zf = TemplateEmbedding(hist.lastZ)
              /\ result'.cls.z = zf
              /\ result'.loc.z = zf
              /\ cfg.MASK => result'.mask.z = zf
      ]_vars

\* A second (or later) completed track() call since the last template().
C5_Witness ==
    /\ result.op = "track" /\ result.ok
    /\ hist.tracks = 2
    /\ result.cls.z = TemplateEmbedding(hist.lastZ)

\* ------------------------------------------------------------- C6
\* C6 as stated: for every config forward(data), on a full batch, completes
\* and returns cls_loss, loc_loss and total_loss, with total_loss =
\* CLS_WEIGHT * cls_loss + LOC_WEIGHT * loc_loss when MASK.MASK is unset;
\* under MASK.MASK the outputs hold mask_loss too and total_loss includes
\* MASK_WEIGHT * mask_loss.
C6_ForwardCompletesInEveryConfig ==
    (result.op = "forward" /\ result.err # "KeyError") =>
        /\ result.ok
        /\ {"cls_loss", "loc_loss", "total_loss"} \subseteq result.keys
        /\ ~cfg.MASK =>
              result.total_loss = cfg.CLS_WEIGHT * result.cls_loss
                                    + cfg.LOC_WEIGHT * result.loc_loss
        /\ cfg.MASK =>
              /\ "mask_loss" \in result.keys
              /\ result.total_loss = cfg.CLS_WEIGHT * result.cls_loss
                                       + cfg.LOC_WEIGHT * result.loc_loss
                                       + cfg.MASK_WEIGHT * result.mask_loss

\* ------------------------------------------------------------- C7
\* C7 as stated: on a model built with the mask and refine heads,
\* mask_refine(pos) succeeds only after a track() call has completed, and
\* passes to the refine head the xf and the mask correlation feature that
\* the most recent track() call cached.
C7_RefineUsesLastTrackOnly ==
    (result.op = "mask_refine" /\ result.ok) =>
        /\ hist.trackDone
        /\ result.refine_xf = FirstLevels(hist.lastTrackX)
        /\ hist.corrBy = "track"
        /\ hist.corrX = hist.lastTrackX
        /\ result.refine_corr = HeadOut("corr", TemplateEmbedding(hist.corrZ),
                                        SearchEmbedding(hist.corrX))

\* C7, amended: mask_refine(pos) succeeds only after a track() call has been
\* made (completed or not: xf is cached before track() can fail) and after a
\* completed track() call or a forward() call on a full batch has run the
\* mask head; it passes to the refine head the xf cached by the most recent
\* track() call and the mask correlation feature written by the most recent
\* of those track() and forward() calls.
C7_RefineUsesLastWriters ==
    (result.op = "mask_refine" /\ result.ok) =>
        /\ cfg.MASK /\ cfg.REFINE
        /\ hist.lastTrackX # 0
        /\ result.refine_xf = FirstLevels(hist.lastTrackX)
        /\ hist.corrBy \in {"track", "forward"}
        /\ result.refine_corr = HeadOut("corr", TemplateEmbedding(hist.corrZ),
                                        SearchEmbedding(hist.corrX))

\* mask_refine() succeeding with the correlation feature of a forward() call
\* on another search image than the one of the last track() call.
C7_Witness ==
    /\ result.op = "mask_refine" /\ result.ok
    /\ hist.corrBy = "forward"
    /\ hist.corrX # hist.lastTrackX
    /\ result.refine_corr.x.img = hist.corrX
    /\ result.refine_xf.img = hist.lastTrackX

\* ------------------------------------------------------------- C8
\* C8 as stated: a forward() call, whether it returns or fails, leaves zf, xf
\* and the cached mask correlation feature as they were, for every config.
C8_ForwardLeavesSession ==
    [][ result'.op = "forward" =>
          /\ zf' = zf
          /\ xf' = xf
          /\ mask_corr_feature' = mask_corr_feature
      ]_vars

\* C8, amended: a forward() call, whether it returns or fails, leaves zf and
\* xf as they were, for every config; it leaves the cached mask correlation
\* feature as it was when MASK.MASK is unset or the batch lacks a key, and
\* under MASK.MASK on a full batch it overwrites it with the mask head's
\* output on the batch's template and search embeddings.
C8_ForwardLeavesEmbeddings ==
    [][ result'.op = "forward" =>
          /\ zf' = zf
          /\ xf' = xf
          /\ IF cfg.MASK /\ result'.err # "KeyError"
             THEN /\ hist'.corrBy = "forward"
                  /\ mask_corr_feature' =
                        HeadOut("corr", TemplateEmbedding(hist'.corrZ),
                                SearchEmbedding(hist'.corrX))
             ELSE mask_corr_feature' = mask_corr_feature
      ]_vars

\* A forward() call that failed under MASK.MASK after a completed track() on
\* another search image: zf and xf are those of the tracking session, the
\* mask correlation feature is the training batch's.
C8_Witness ==
    /\ result.op = "forward" /\ result.err = "TypeError"
    /\ hist.trackDone
    /\ hist.corrBy = "forward"
    /\ hist.corrX # hist.lastTrackX
    /\ xf = FirstLevels(hist.lastTrackX)
    /\ zf = TemplateEmbedding(hist.lastZ)
    /\ mask_corr_feature.x.img = hist.corrX

\* ------------------------------------------------------------- C9
\* A single tensor holding the last backbone level only.
OnlyLastLevel(f) == f.kind = "tensor" /\ f.lvls = <<nlevels>>

\* What C9 says of the state an operation leaves.
C9_After ==
    /\ (cfg.MASK /\ result.op \in {"template", "track"}) =>
          /\ \A i \in DOMAIN calls :
                /\ calls[i].mod = "neck" =>
                      calls[i].a = LastLevel(backbone(nlevels, result.arg))
                /\ calls[i].mod \in {"rpn_head", "mask_head"} =>
                      /\ OnlyLastLevel(calls[i].a)
                      /\ OnlyLastLevel(calls[i].b)
                      /\ calls[i].b.img = result.arg
          /\ result.op = "template" => OnlyLastLevel(zf) /\ zf.img = result.arg
          /\ result.op = "track" => xf = FirstLevels(result.arg)
    /\ (~cfg.MASK /\ result.op = "template") =>
          \A i \in DOMAIN calls :
              calls[i].mod = "neck" => calls[i].a = backbone(nlevels, result.arg)

\* C9: under MASK.MASK, with a backbone returning n >= 1 levels, template()
\* and track() feed only the last level to the neck and the heads, and
\* track() caches as xf the first n-1 levels in their order; with MASK.MASK
\* unset template() passes the whole backbone output to the neck and track()
\* does not write xf.
C9_LevelSelection ==
    [][ /\ C9_After'
        /\ (~cfg.MASK /\ result'.op = "track") => xf' = xf
      ]_vars

\* A completed track() under MASK.MASK on a backbone of two or more levels.
C9_Witness ==
    /\ cfg.MASK /\ nlevels >= 2
    /\ result.op = "track" /\ result.ok
    /\ Len(xf.lvls) = nlevels - 1 /\ xf.lvls[1] = 1
    /\ \E i \in DOMAIN calls : calls[i].mod = "neck"
    /\ \E i \in DOMAIN calls : calls[i].mod = "mask_head"

\* ------------------------------------------------------------- C10
\* The position of element [i, ch, y, x] in a contiguous tensor of shape
\* (b, a2, h, w), and of element [i, a, y, x, c] in one of shape (b, k, h, w, 2).
InputAt(sh, i, ch, y, x) == ((i * sh[2] + ch) * sh[3] + y) * sh[4] + x
OutputAt(sh, i, a, y, x, c) ==
    (((i * (sh[2] \div 2) + a) * sh[3] + y) * sh[4] + x) * 2 + c

\* C10: on an input of shape (b, 2k, h, w) log_softmax returns a tensor of
\* shape (b, k, h, w, 2) whose element [i, a, y, x, c] is computed from the
\* input channel c*k + a at the same i, y, x, normalised together with the
\* other class score of the same anchor and position.
C10_LogSoftmaxLayout ==
    (ls.pc = "returned" /\ ls.shape[2] % 2 = 0) =>
        LET sh == ls.shape
            k  == sh[2] \div 2
        IN  /\ ls.out.ok
            /\ ls.out.shape = <<sh[1], k, sh[3], sh[4], 2>>
            /\ Len(ls.out.data) = sh[1] * sh[2] * sh[3] * sh[4]
            /\ \A i \in 0..(sh[1] - 1), a \in 0..(k - 1), y \in 0..(sh[3] - 1),
                  x \in 0..(sh[4] - 1), c \in 0..1 :
                  LET e == ls.out.data[OutputAt(sh, i, a, y, x, c) + 1]
                  IN  /\ e.num = InputAt(sh, i, c * k + a, y, x)
                      /\ e.den = {InputAt(sh, i, a, y, x),
                                  InputAt(sh, i, k + a, y, x)}

\* A returned call on an input with two or more anchors, a batch of two or
\* more and more than one position.
C10_Witness ==
    /\ ls.pc = "returned" /\ ls.out.ok
    /\ ls.shape[1] >= 2 /\ ls.shape[2] >= 4 /\ ls.shape[4] >= 2
    /\ ls.out.shape[5] = 2
====
